---- MODULE Spec2Model ----
(***************************************************************************)
(* A model of the REAI index engine, src/src/reai_calculator.py:           *)
(* REAICalculator.__init__ / _validate_weights, normalize_score, the four  *)
(* component scorers, calculate_reai, sensitivity_analysis and             *)
(* get_summary_statistics.                                                 *)
(*                                                                         *)
(* Numbers.  Python floats are modelled by exact decimal arithmetic:       *)
(*   - a weight is an integer number of 1e-9 ("nano") units;               *)
(*   - a normalized score is an integer number of 1/Den units, Den chosen  *)
(*     so that every division the scorers perform is exact;                *)
(*   - a composite (weight * score summed) is a pair [hi, lo] standing for *)
(*     (hi * Fine + lo) / (Den * Nano), 0 <= lo < Fine, so that products   *)
(*     stay inside TLC's 32-bit integers.                                  *)
(* IEEE rounding is not modelled.                                          *)
(*                                                                         *)
(* Objects.  A DataFrame is a function from column names to columns, held  *)
(* in a heap (tables) and passed by reference; a dict is a sequence of     *)
(* <<key, value>> pairs in insertion order.                                *)
(***************************************************************************)
EXTENDS Integers, Sequences, FiniteSets, TLC

VARIABLES
    callerWeights,  \* per engine: the dict object the caller passed to __init__
    engine,         \* per engine: construction status, default_weights, what self.weights refers to
    tables,         \* heap of DataFrame objects, by table id
    result,         \* outcome of the last call: operation, exception or returned value
    series,         \* the Series handed to normalize_score
    normOut,        \* what normalize_score returned for it
    calls           \* per engine: the calculate_reai call it is running statement by statement

vars == <<callerWeights, engine, tables, result, series, normOut, calls>>

----------------------------------------------------------------------------
(* Bounds of the model *)

NReg == 3       \* regions (rows) of a table
MaxVal == 1     \* raw indicator values range over -1..MaxVal
MaxLen == 3     \* longest Series handed to normalize_score on its own

Regions == 1..NReg
Vals == (0 - 1)..MaxVal
Span == MaxVal + 1

----------------------------------------------------------------------------
(* Number representation *)

Nano == 10^9                 \* nano units in 1.0
Fine == 10^7                 \* nano units in 0.01: the split point of a weight

Abs(x) == IF x < 0 THEN 0 - x ELSE x

RECURSIVE Gcd(_, _)
Gcd(a, b) == IF b = 0 THEN a ELSE Gcd(b, a % b)

RECURSIVE LcmUpTo(_)
LcmUpTo(n) == IF n <= 1 THEN 1 ELSE (n * LcmUpTo(n - 1)) \div Gcd(n, LcmUpTo(n - 1))

\* score units per 1.0: (max - min) ranges over 1..Span, and the transportation
\* scorer divides by 3
Den == 3 * LcmUpTo(Span)

Hundred == 100 * Den         \* the score 100.0
Fifty == 50 * Den            \* the score 50.0

RECURSIVE SeqMin(_)
SeqMin(s) == IF Len(s) = 1 THEN s[1]
             ELSE LET m == SeqMin(Tail(s)) IN IF s[1] < m THEN s[1] ELSE m

RECURSIVE SeqMax(_)
SeqMax(s) == IF Len(s) = 1 THEN s[1]
             ELSE LET m == SeqMax(Tail(s)) IN IF s[1] > m THEN s[1] ELSE m

RECURSIVE SeqSum(_)
SeqSum(s) == IF s = <<>> THEN 0 ELSE s[1] + SeqSum(Tail(s))

----------------------------------------------------------------------------
(* dict: a sequence of <<key, value>> pairs, keys distinct, insertion order *)

DictKeys(d) == [i \in 1..Len(d) |-> d[i][1]]
DictValues(d) == [i \in 1..Len(d) |-> d[i][2]]
HasKey(d, k) == \E i \in 1..Len(d) : d[i][1] = k
DictGet(d, k) == d[CHOOSE i \in 1..Len(d) : d[i][1] = k][2]

\* d[k] = v: replaces the value of k, or appends the key
DictSet(d, k, v) ==
    IF HasKey(d, k) THEN [i \in 1..Len(d) |-> IF d[i][1] = k THEN <<k, v>> ELSE d[i]]
    ELSE Append(d, <<k, v>>)

\* the four component names, in the order the source writes them
Components == <<"transportation", "labor_market", "licensing", "policy">>

default_weights ==
    << <<"transportation", 300000000>>, <<"labor_market", 350000000>>,
       <<"licensing", 200000000>>, <<"policy", 150000000>> >>

----------------------------------------------------------------------------
(* numpy.isclose(a, b) with its default tolerances: |a - b| <= atol + rtol*|b| *)

ATOL == 10                   \* atol = 1e-8, in nano units
RTOLINV == 100000            \* rtol = 1e-5 = 1 / RTOLINV

isclose(a, b) == Abs(a - b) <= ATOL + Abs(b) \div RTOLINV

\* _validate_weights with the tolerance of 1e-9 (one nano unit) in place of isclose
validate_weights_nano(w) == Abs(SeqSum(DictValues(w)) - Nano) <= 1

\* _validate_weights: TRUE when the check passes, FALSE when it raises ValueError
validate_weights(w) == isclose(SeqSum(DictValues(w)), Nano)

----------------------------------------------------------------------------
(* normalize_score *)

\* normalize_score without the constant-column branch: a zero numerator scores 0
normalize_score_noguard(s, reverse) ==
    LET min_val == SeqMin(s)
        max_val == SeqMax(s)
        range == IF max_val = min_val THEN 1 ELSE max_val - min_val
        normalized == [i \in 1..Len(s) |-> ((s[i] - min_val) * Hundred) \div range]
    IN  IF reverse THEN [i \in 1..Len(s) |-> Hundred - normalized[i]] ELSE normalized

\* normalize_score reversing by counting down from the maximum score present
normalize_score_flip(s, reverse) ==
    LET min_val == SeqMin(s)
        max_val == SeqMax(s)
        normalized == [i \in 1..Len(s) |->
                          ((s[i] - min_val) * Hundred) \div (max_val - min_val)]
    IN  IF max_val = min_val
        THEN [i \in 1..Len(s) |-> Fifty]
        ELSE IF reverse
             THEN [i \in 1..Len(s) |-> Fifty - normalized[i]]
             ELSE normalized

\* normalize_score scaling the raw value, without subtracting the minimum
normalize_score_nomin(s, reverse) ==
    LET min_val == SeqMin(s)
        max_val == SeqMax(s)
        normalized == [i \in 1..Len(s) |-> (s[i] * Hundred) \div (max_val - min_val)]
    IN  IF max_val = min_val
        THEN [i \in 1..Len(s) |-> Fifty]
        ELSE IF reverse
             THEN [i \in 1..Len(s) |-> Hundred - normalized[i]]
             ELSE normalized

\* normalize_score dividing by the range plus one
normalize_score_plus1(s, reverse) ==
    LET min_val == SeqMin(s)
        max_val == SeqMax(s)
        normalized == [i \in 1..Len(s) |->
                          ((s[i] - min_val) * Hundred) \div (max_val - min_val + 1)]
    IN  IF max_val = min_val
        THEN [i \in 1..Len(s) |-> Fifty]
        ELSE IF reverse
             THEN [i \in 1..Len(s) |-> Hundred - normalized[i]]
             ELSE normalized

normalize_score(s, reverse) ==
    LET min_val == SeqMin(s)
        max_val == SeqMax(s)
        normalized == [i \in 1..Len(s) |->
                          ((s[i] - min_val) * Hundred) \div (max_val - min_val)]
    IN  IF max_val = min_val
        THEN [i \in 1..Len(s) |-> Fifty]
        ELSE IF reverse
             THEN [i \in 1..Len(s) |-> Hundred - normalized[i]]
             ELSE normalized

----------------------------------------------------------------------------
(* DataFrame: a function from column names to columns; a column is a       *)
(* sequence with one value per region.  Reading an absent column raises    *)
(* KeyError(column).  A scorer or a column expression yields               *)
(* [ok, key, val]: the value, or the key of the KeyError it raised.        *)

Return(v) == [ok |-> TRUE, key |-> "", val |-> v]
Raise(k) == [ok |-> FALSE, key |-> k, val |-> <<>>]

\* the first of the columns cols (in evaluation order) that df lacks, or ""
FirstMissing(df, cols) ==
    LET miss == {i \in 1..Len(cols) : cols[i] \notin DOMAIN df}
    IN  IF miss = {} THEN ""
        ELSE cols[CHOOSE i \in miss : \A j \in miss : i <= j]

\* df[c] = v: replaces the column, or appends it
SetCol(df, c, v) == [x \in (DOMAIN df) \cup {c} |-> IF x = c THEN v ELSE df[x]]

calculate_transportation_score(df) ==
    LET missing == FirstMissing(df, <<"pct_no_vehicle", "avg_commute_time", "pct_broadband">>)
        n == Len(df["pct_no_vehicle"])
        vehicle_score == normalize_score([i \in 1..n |-> 100 - df["pct_no_vehicle"][i]], FALSE)
        commute_score == normalize_score(df["avg_commute_time"], TRUE)
        broadband_score == normalize_score(df["pct_broadband"], FALSE)
    IN  IF missing # "" THEN Raise(missing)
        ELSE Return([i \in 1..n |->
                 (vehicle_score[i] + commute_score[i] + broadband_score[i]) \div 3])

\* the labor-market scorer averaging its three sub-scores
calculate_labor_market_score_mean(df) ==
    LET missing == FirstMissing(df, <<"unemployment_rate", "employment_growth", "poverty_rate">>)
        n == Len(df["unemployment_rate"])
        unemployment_score == normalize_score(df["unemployment_rate"], TRUE)
        employment_growth_score == normalize_score(df["employment_growth"], FALSE)
        poverty_score == normalize_score(df["poverty_rate"], TRUE)
    IN  IF missing # "" THEN Raise(missing)
        ELSE Return([i \in 1..n |->
                 (unemployment_score[i] + employment_growth_score[i] + poverty_score[i]) \div 3])

calculate_labor_market_score(df) ==
    LET missing == FirstMissing(df, <<"unemployment_rate", "employment_growth", "poverty_rate">>)
        n == Len(df["unemployment_rate"])
        unemployment_score == normalize_score(df["unemployment_rate"], TRUE)
        employment_growth_score == normalize_score(df["employment_growth"], FALSE)
        poverty_score == normalize_score(df["poverty_rate"], TRUE)
    IN  IF missing # "" THEN Raise(missing)
        ELSE Return([i \in 1..n |->
                 (unemployment_score[i] * 40 + employment_growth_score[i] * 30
                    + poverty_score[i] * 30) \div 100])

calculate_licensing_score(df) ==
    IF "licensing_burden_index" \notin DOMAIN df THEN Raise("licensing_burden_index")
    ELSE Return(normalize_score(df["licensing_burden_index"], TRUE))

calculate_policy_score(df) ==
    LET missing == FirstMissing(df, <<"ban_the_box_score", "fair_chance_score">>)
        n == Len(df["ban_the_box_score"])
        btb_score == normalize_score(df["ban_the_box_score"], FALSE)
        fair_chance_score == normalize_score(df["fair_chance_score"], FALSE)
    IN  IF missing # "" THEN Raise(missing)
        ELSE Return([i \in 1..n |-> (btb_score[i] + fair_chance_score[i]) \div 2])

----------------------------------------------------------------------------
(* Composite values: weight (nano) * score (1/Den), exactly *)

WHi(w) == (w + Fine \div 2) \div Fine       \* w = WHi(w) * Fine + WLo(w)
WLo(w) == w - WHi(w) * Fine

Canon(h, l) == [hi |-> h + (l \div Fine), lo |-> l % Fine]

CLess(a, b) == a.hi < b.hi \/ (a.hi = b.hi /\ a.lo < b.lo)
CLeq(a, b) == ~CLess(b, a)

CZero == [hi |-> 0, lo |-> 0]
CHundred == [hi |-> Hundred * (Nano \div Fine), lo |-> 0]    \* the composite 100.0

ScoreCols == <<"transportation_score", "labor_market_score", "licensing_score", "policy_score">>

\* the weighted sum taken with the default weights whatever w is
weighted_sum_default(df, w) ==
    LET bad == {k \in 1..4 : ScoreCols[k] \notin DOMAIN df \/ ~HasKey(w, Components[k])}
        k0 == CHOOSE k \in bad : \A j \in bad : k <= j
        n == Len(df[ScoreCols[1]])
        term(k, i) == df[ScoreCols[k]][i]
        wk(k) == DictGet(default_weights, Components[k])
    IN  IF bad # {}
        THEN Raise(IF ScoreCols[k0] \notin DOMAIN df THEN ScoreCols[k0] ELSE Components[k0])
        ELSE Return([i \in 1..n |->
                 Canon(term(1, i) * WHi(wk(1)) + term(2, i) * WHi(wk(2))
                         + term(3, i) * WHi(wk(3)) + term(4, i) * WHi(wk(4)),
                       term(1, i) * WLo(wk(1)) + term(2, i) * WLo(wk(2))
                         + term(3, i) * WLo(wk(3)) + term(4, i) * WLo(wk(4)))])

\* df['transportation_score'] * w['transportation'] + ... + df['policy_score'] * w['policy']
\* operands are evaluated left to right: column k, then weight k
weighted_sum(df, w) ==
    LET bad == {k \in 1..4 : ScoreCols[k] \notin DOMAIN df \/ ~HasKey(w, Components[k])}
        k0 == CHOOSE k \in bad : \A j \in bad : k <= j
        n == Len(df[ScoreCols[1]])
        term(k, i) == df[ScoreCols[k]][i]
        wk(k) == DictGet(w, Components[k])
    IN  IF bad # {}
        THEN Raise(IF ScoreCols[k0] \notin DOMAIN df THEN ScoreCols[k0] ELSE Components[k0])
        ELSE Return([i \in 1..n |->
                 Canon(term(1, i) * WHi(wk(1)) + term(2, i) * WHi(wk(2))
                         + term(3, i) * WHi(wk(3)) + term(4, i) * WHi(wk(4)),
                       term(1, i) * WLo(wk(1)) + term(2, i) * WLo(wk(2))
                         + term(3, i) * WLo(wk(3)) + term(4, i) * WLo(wk(4)))])

----------------------------------------------------------------------------
(* Series.rank(ascending=False, method='min').astype(int): the values are  *)
(* sorted in descending order and every value takes the first (lowest)     *)
(* position of its group of equals.                                        *)

RECURSIVE InsertDesc(_, _)
InsertDesc(x, s) ==
    IF s = <<>> THEN <<x>>
    ELSE IF CLess(s[1], x) THEN <<x>> \o s
    ELSE <<s[1]>> \o InsertDesc(x, Tail(s))

RECURSIVE SortDesc(_)
SortDesc(s) == IF s = <<>> THEN <<>> ELSE InsertDesc(s[1], SortDesc(Tail(s)))

\* dense ranking: a group of equals is followed by the next integer
rank_dense(s) ==
    [i \in 1..Len(s) |-> 1 + Cardinality({s[j] : j \in {q \in 1..Len(s) : CLess(s[i], s[q])}})]

\* rank(method='min') with the default ascending order
rank_asc(s) ==
    [i \in 1..Len(s) |-> 1 + Cardinality({j \in 1..Len(s) : CLess(s[j], s[i])})]

rank_min(s) ==
    LET sorted == SortDesc(s)
    IN  [i \in 1..Len(s) |->
            CHOOSE p \in 1..Len(s) :
                /\ sorted[p] = s[i]
                /\ \A q \in 1..Len(s) : sorted[q] = s[i] => p <= q]

----------------------------------------------------------------------------
(* calculate_reai(df): the statements run in order on the caller's object; *)
(* an exception leaves the columns already assigned.  Yields the content   *)
(* of the object afterwards and the exception, if any.                     *)

Outcome(df, st, key) == [df |-> df, status |-> st, key |-> key]

\* calculate_reai adding the composite onto a REAI column already on the table
calculate_reai_accum(w, df) ==
    LET t == calculate_transportation_score(df)
        df1 == SetCol(df, "transportation_score", t.val)
        l == calculate_labor_market_score(df1)
        df2 == SetCol(df1, "labor_market_score", l.val)
        c == calculate_licensing_score(df2)
        df3 == SetCol(df2, "licensing_score", c.val)
        p == calculate_policy_score(df3)
        df4 == SetCol(df3, "policy_score", p.val)
        r == weighted_sum(df4, w)
        sum == IF "REAI" \in DOMAIN df4
               THEN [i \in 1..Len(r.val) |->
                        Canon(df4["REAI"][i].hi + r.val[i].hi, df4["REAI"][i].lo + r.val[i].lo)]
               ELSE r.val
        df5 == SetCol(df4, "REAI", sum)
        df6 == SetCol(df5, "REAI_rank", rank_min(df5["REAI"]))
    IN  IF ~t.ok THEN Outcome(df, "KeyError", t.key)
        ELSE IF ~l.ok THEN Outcome(df1, "KeyError", l.key)
        ELSE IF ~c.ok THEN Outcome(df2, "KeyError", c.key)
        ELSE IF ~p.ok THEN Outcome(df3, "KeyError", p.key)
        ELSE IF ~r.ok THEN Outcome(df4, "KeyError", r.key)
        ELSE Outcome(df6, "ok", "")

calculate_reai(w, df) ==
    LET t == calculate_transportation_score(df)
        df1 == SetCol(df, "transportation_score", t.val)
        l == calculate_labor_market_score(df1)
        df2 == SetCol(df1, "labor_market_score", l.val)
        c == calculate_licensing_score(df2)
        df3 == SetCol(df2, "licensing_score", c.val)
        p == calculate_policy_score(df3)
        df4 == SetCol(df3, "policy_score", p.val)
        r == weighted_sum(df4, w)
        df5 == SetCol(df4, "REAI", r.val)
        df6 == SetCol(df5, "REAI_rank", rank_min(df5["REAI"]))
    IN  IF ~t.ok THEN Outcome(df, "KeyError", t.key)
        ELSE IF ~l.ok THEN Outcome(df1, "KeyError", l.key)
        ELSE IF ~c.ok THEN Outcome(df2, "KeyError", c.key)
        ELSE IF ~p.ok THEN Outcome(df3, "KeyError", p.key)
        ELSE IF ~r.ok THEN Outcome(df4, "KeyError", r.key)
        ELSE Outcome(df6, "ok", "")

\* the columns assigned by the six statements of calculate_reai, in order
StmtCols == <<"transportation_score", "labor_market_score", "licensing_score",
              "policy_score", "REAI", "REAI_rank">>

\* statement k of calculate_reai on the object's current content
calc_stmt(k, w, df) ==
    LET r == CASE k = 1 -> calculate_transportation_score(df)
               [] k = 2 -> calculate_labor_market_score(df)
               [] k = 3 -> calculate_licensing_score(df)
               [] k = 4 -> calculate_policy_score(df)
               [] k = 5 -> weighted_sum(df, w)
               [] k = 6 -> Return(rank_min(df["REAI"]))
    IN  IF r.ok THEN Outcome(SetCol(df, StmtCols[k], r.val), "ok", "")
        ELSE Outcome(df, "KeyError", r.key)

----------------------------------------------------------------------------
(* sensitivity_analysis(df, weight_scenarios): weight_scenarios is a dict  *)
(* of scenario name -> weight dict.  Yields [status, msg, val]: the        *)
(* returned table, or the exception and no value.                          *)

Returned(tbl) == [status |-> "ok", msg |-> "", val |-> tbl]
Raised(exc, msg) == [status |-> exc, msg |-> msg, val |-> <<>>]

\* the scenario loop skipping a scenario that fails the sum check
RECURSIVE scenario_loop_skip(_, _, _)
scenario_loop_skip(df, results, scenarios) ==
    IF scenarios = <<>> THEN Returned(results)
    ELSE LET scenario_name == scenarios[1][1]
             weights == scenarios[1][2]
             scenario_reai == weighted_sum(df, weights)
             results1 == SetCol(results, scenario_name \o "_REAI", scenario_reai.val)
             results2 == SetCol(results1, scenario_name \o "_rank", rank_min(scenario_reai.val))
         IN  IF ~isclose(SeqSum(DictValues(weights)), Nano)
             THEN scenario_loop_skip(df, results, Tail(scenarios))
             ELSE IF ~scenario_reai.ok THEN Raised("KeyError", scenario_reai.key)
             ELSE scenario_loop_skip(df, results2, Tail(scenarios))

\* the scenario loop computing every scenario with the base (default) weights
RECURSIVE scenario_loop_base(_, _, _)
scenario_loop_base(df, results, scenarios) ==
    IF scenarios = <<>> THEN Returned(results)
    ELSE LET scenario_name == scenarios[1][1]
             weights == scenarios[1][2]
             scenario_reai == weighted_sum(df, default_weights)
             results1 == SetCol(results, scenario_name \o "_REAI", scenario_reai.val)
             results2 == SetCol(results1, scenario_name \o "_rank", rank_min(scenario_reai.val))
         IN  IF ~isclose(SeqSum(DictValues(weights)), Nano)
             THEN Raised("ValueError", "Weights for " \o scenario_name \o " must sum to 1.0")
             ELSE IF ~scenario_reai.ok THEN Raised("KeyError", scenario_reai.key)
             ELSE scenario_loop_base(df, results2, Tail(scenarios))

RECURSIVE scenario_loop(_, _, _)
scenario_loop(df, results, scenarios) ==
    IF scenarios = <<>> THEN Returned(results)
    ELSE LET scenario_name == scenarios[1][1]
             weights == scenarios[1][2]
             scenario_reai == weighted_sum(df, weights)
             results1 == SetCol(results, scenario_name \o "_REAI", scenario_reai.val)
             results2 == SetCol(results1, scenario_name \o "_rank", rank_min(scenario_reai.val))
         IN  IF ~isclose(SeqSum(DictValues(weights)), Nano)
             THEN Raised("ValueError", "Weights for " \o scenario_name \o " must sum to 1.0")
             ELSE IF ~scenario_reai.ok THEN Raised("KeyError", scenario_reai.key)
             ELSE scenario_loop(df, results2, Tail(scenarios))

\* sensitivity_analysis returning an empty frame for a table without REAI columns
sensitivity_analysis_lenient(df, weight_scenarios) ==
    LET missing == FirstMissing(df, <<"county", "REAI", "REAI_rank">>)
        results == SetCol(SetCol(SetCol(<<>>, "county", df["county"]),
                                 "base_REAI", df["REAI"]),
                          "base_rank", df["REAI_rank"])
    IN  IF missing # "" THEN Returned(<<>>)
        ELSE scenario_loop(df, results, weight_scenarios)

sensitivity_analysis(df, weight_scenarios) ==
    LET missing == FirstMissing(df, <<"county", "REAI", "REAI_rank">>)
        results == SetCol(SetCol(SetCol(<<>>, "county", df["county"]),
                                 "base_REAI", df["REAI"]),
                          "base_rank", df["REAI_rank"])
    IN  IF missing # "" THEN Raised("KeyError", missing)
        ELSE scenario_loop(df, results, weight_scenarios)

----------------------------------------------------------------------------
(* get_summary_statistics(df).  The returned frame is [index, columns,     *)
(* cell]: the row labels in order, the column labels in order, and         *)
(* cell[column][row].  A statistic of describe() is kept as the term       *)
(* [stat, of]: which statistic, of which column of values.                 *)

Stat(name, col) == [stat |-> name, of |-> col]

score_columns == <<"REAI", "transportation_score", "labor_market_score",
                   "licensing_score", "policy_score">>

\* the columns of DataFrame.describe(), in order
describe_columns == <<"count", "mean", "std", "min", "25%", "50%", "75%", "max">>

\* the column list of the return statement
summary_columns == <<"weight", "mean", "std", "min", "25%", "50%", "75%", "max">>

SeqRange(s) == {s[i] : i \in 1..Len(s)}
IndexOf(s, x) == CHOOSE i \in 1..Len(s) : s[i] = x

\* the return statement keeping every column of describe()
get_summary_statistics_all(w, df) ==
    LET missing == FirstMissing(df, score_columns)
        rows == SeqRange(score_columns)
        summary == [c \in SeqRange(describe_columns) |-> [r \in rows |-> Stat(c, df[r])]]
        weight == <<Nano>> \o DictValues(w)
        summary1 == SetCol(summary, "weight",
                           [r \in rows |-> weight[IndexOf(score_columns, r)]])
    IN  IF missing # "" THEN Raised("KeyError", missing)
        ELSE IF Len(weight) # Len(score_columns)
        THEN Raised("ValueError", "Length of values does not match length of index")
        ELSE Returned([index |-> score_columns,
                       columns |-> <<"weight">> \o describe_columns,
                       cell |-> summary1])

get_summary_statistics(w, df) ==
    LET missing == FirstMissing(df, score_columns)
        rows == SeqRange(score_columns)
        \* df[score_columns].describe().T: a row per score column
        summary == [c \in SeqRange(describe_columns) |-> [r \in rows |-> Stat(c, df[r])]]
        \* [1.0] + [self.weights[k] for k in self.weights.keys()]: assigned by position
        weight == <<Nano>> \o DictValues(w)
        summary1 == SetCol(summary, "weight",
                           [r \in rows |-> weight[IndexOf(score_columns, r)]])
    IN  IF missing # "" THEN Raised("KeyError", missing)
        ELSE IF Len(weight) # Len(score_columns)
        THEN Raised("ValueError", "Length of values does not match length of index")
        ELSE Returned([index |-> score_columns,
                       columns |-> summary_columns,
                       cell |-> [c \in SeqRange(summary_columns) |-> summary1[c]]])

----------------------------------------------------------------------------
(* Objects and calls *)

Engines == {"A"}
TableIds == {"t1"}

\* self.weights kept in an attribute of the class, shared by the instances:
\* engine B's weights for every engine once B is constructed
self_weights_shared(e) ==
    LET owner == IF \E b \in DOMAIN engine : b = "B" /\ engine[b].status = "ok"
                 THEN "B" ELSE e
    IN  IF engine[owner].weights = "caller" THEN callerWeights[owner]
        ELSE engine[owner].default_weights

\* self.weights: a reference to the caller's dict or to self.default_weights
self_weights(e) ==
    IF engine[e].weights = "caller" THEN callerWeights[e] ELSE engine[e].default_weights

NoCall == [op |-> "none", eng |-> "", tbl |-> "", arg |-> <<>>, pre |-> <<>>,
           status |-> "", msg |-> "", ref |-> "", val |-> <<>>]

\* REAICalculator(weights)
Construct(e, weights) ==
    LET ref == IF Len(weights) > 0 THEN "caller" ELSE "default"
        w == IF ref = "caller" THEN weights ELSE default_weights
        valid == validate_weights(w)
    IN  /\ engine[e].status = "none"
        /\ callerWeights' = [callerWeights EXCEPT ![e] = weights]
        /\ engine' = [engine EXCEPT ![e] =
                         [status |-> IF valid THEN "ok" ELSE "failed",
                          default_weights |-> default_weights,
                          weights |-> ref]]
        /\ result' = [NoCall EXCEPT !.op = "init", !.eng = e, !.arg = weights,
                         !.status = IF valid THEN "ok" ELSE "ValueError",
                         !.msg = IF valid THEN "" ELSE "Weights must sum to 1.0"]
        /\ UNCHANGED <<tables, series, normOut, calls>>

\* calculate_reai putting self.weights back to self.default_weights when it is done
Calculate_reset(e, t) ==
    LET out == calculate_reai(self_weights(e), tables[t])
    IN  /\ engine[e].status = "ok"
        /\ tables' = [tables EXCEPT ![t] = out.df]
        /\ result' = [NoCall EXCEPT !.op = "calculate_reai", !.eng = e, !.tbl = t,
                         !.pre = tables[t], !.status = out.status, !.msg = out.key,
                         !.ref = IF out.status = "ok" THEN t ELSE ""]
        /\ engine' = [engine EXCEPT ![e].weights = "default"]
        /\ UNCHANGED <<callerWeights, series, normOut, calls>>

\* e.calculate_reai(t): works on the caller's object and returns it
Calculate(e, t) ==
    LET out == calculate_reai(self_weights(e), tables[t])
    IN  /\ engine[e].status = "ok"
        /\ tables' = [tables EXCEPT ![t] = out.df]
        /\ result' = [NoCall EXCEPT !.op = "calculate_reai", !.eng = e, !.tbl = t,
                         !.pre = tables[t], !.status = out.status, !.msg = out.key,
                         !.ref = IF out.status = "ok" THEN t ELSE ""]
        /\ UNCHANGED <<callerWeights, engine, series, normOut, calls>>

\* sensitivity_analysis leaving self.weights bound to the last scenario's weights
Sensitivity_rebind(e, t, weight_scenarios) ==
    LET out == sensitivity_analysis(tables[t], weight_scenarios)
        n == Len(weight_scenarios)
    IN  /\ engine[e].status = "ok"
        /\ result' = [NoCall EXCEPT !.op = "sensitivity_analysis", !.eng = e, !.tbl = t,
                         !.arg = weight_scenarios, !.pre = tables[t],
                         !.status = out.status, !.msg = out.msg, !.val = out.val]
        /\ IF out.status = "ok" /\ n > 0
           THEN /\ callerWeights' = [callerWeights EXCEPT ![e] = weight_scenarios[n][2]]
                /\ engine' = [engine EXCEPT ![e].weights = "caller"]
           ELSE UNCHANGED <<callerWeights, engine>>
        /\ UNCHANGED <<tables, series, normOut, calls>>

\* a call frame of calculate_reai: statements completed, the object df is bound
\* to, its content on entry, and how the call ended ("" not entered, "running",
\* "ok" returned, "KeyError" raised)
NoFrame == [done |-> 0, tbl |-> "", pre |-> <<>>, status |-> "", key |-> ""]

\* the next statement of e.calculate_reai(t), run while other engines may run
\* theirs; the first step enters the call, the last one returns df
CalcStep(e, t) ==
    LET f == calls[e]
        k == f.done + 1
        out == calc_stmt(k, self_weights(e), tables[t])
        st == IF out.status # "ok" THEN out.status
              ELSE IF k = Len(StmtCols) THEN "ok" ELSE "running"
        pre == IF f.status = "" THEN tables[t] ELSE f.pre
    IN  /\ engine[e].status = "ok"
        /\ \/ f.status = ""
           \/ f.status = "running" /\ f.tbl = t
        /\ tables' = [tables EXCEPT ![t] = out.df]
        /\ calls' = [calls EXCEPT ![e] =
                        [done |-> IF out.status = "ok" THEN k ELSE f.done,
                         tbl |-> t, pre |-> pre, status |-> st, key |-> out.key]]
        /\ result' = IF st = "running" THEN result
                     ELSE [NoCall EXCEPT !.op = "calculate_reai", !.eng = e, !.tbl = t,
                              !.pre = pre, !.status = st, !.msg = out.key,
                              !.ref = IF st = "ok" THEN t ELSE ""]
        /\ UNCHANGED <<callerWeights, engine, series, normOut>>

\* e.sensitivity_analysis(t, weight_scenarios)
Sensitivity(e, t, weight_scenarios) ==
    LET out == sensitivity_analysis(tables[t], weight_scenarios)
    IN  /\ engine[e].status = "ok"
        /\ result' = [NoCall EXCEPT !.op = "sensitivity_analysis", !.eng = e, !.tbl = t,
                         !.arg = weight_scenarios, !.pre = tables[t],
                         !.status = out.status, !.msg = out.msg, !.val = out.val]
        /\ UNCHANGED <<callerWeights, engine, tables, series, normOut, calls>>

\* e.get_summary_statistics(t)
Summary(e, t) ==
    LET out == get_summary_statistics(self_weights(e), tables[t])
    IN  /\ engine[e].status = "ok"
        /\ result' = [NoCall EXCEPT !.op = "get_summary_statistics", !.eng = e, !.tbl = t,
                         !.pre = tables[t],
                         !.status = out.status, !.msg = out.msg, !.val = out.val]
        /\ UNCHANGED <<callerWeights, engine, tables, series, normOut, calls>>

\* the caller assigns weights[k] = v on the dict it passed to REAICalculator
CallerMutates(e, k, v) ==
    /\ engine[e].status = "ok"
    /\ callerWeights[e] # <<>>
    /\ callerWeights' = [callerWeights EXCEPT ![e] = DictSet(callerWeights[e], k, v)]
    /\ UNCHANGED <<engine, tables, result, series, normOut, calls>>

\* normalize_score(series, reverse), called on its own
Normalize(reverse) ==
    /\ reverse \notin normOut.done
    /\ normOut' = [done |-> normOut.done \cup {reverse},
                   out |-> [normOut.out EXCEPT ![reverse] = normalize_score(series, reverse)]]
    /\ UNCHANGED <<callerWeights, engine, tables, result, series, calls>>

\* normalize_score(k * series + c, reverse): the same column in another unit
\* and from another origin
NormalizeAffine(k, c, reverse) ==
    LET moved == [i \in 1..Len(series) |-> k * series[i] + c]
    IN  /\ result' = [NoCall EXCEPT !.op = "normalize_score", !.arg = <<k, c, reverse>>,
                         !.pre = moved, !.status = "ok",
                         !.val = normalize_score(moved, reverse)]
        /\ UNCHANGED <<callerWeights, engine, tables, series, normOut, calls>>

----------------------------------------------------------------------------
(* Inputs *)

RawCols == <<"pct_no_vehicle", "avg_commute_time", "pct_broadband",
             "unemployment_rate", "employment_growth", "poverty_rate",
             "licensing_burden_index", "ban_the_box_score", "fair_chance_score">>

DerivedCols == {"transportation_score", "labor_market_score", "licensing_score",
                "policy_score", "REAI", "REAI_rank"}

Rot(v) == [i \in 1..Len(v) |-> v[(i % Len(v)) + 1]]
Neg(v) == [i \in 1..Len(v) |-> 0 - v[i]]
Flat(v) == [i \in 1..Len(v) |-> 65]

\* how the nine raw columns (in the order of RawCols) derive from one vector v:
\* "v", "neg" (negated), "rot" (rotated by one region), "flat" (constant)
Aligned == <<"v", "v", "neg", "v", "neg", "v", "v", "neg", "neg">>       \* every indicator favours the same regions
Opposed == <<"v", "v", "neg", "neg", "v", "neg", "flat", "flat", "rot">> \* labor market against transportation
Mixed == <<"v", "rot", "neg", "rot", "v", "rot", "flat", "flat", "rot">>
TransportOnly == <<"v", "v", "neg", "flat", "flat", "flat", "flat", "flat", "flat">>

Layouts == {Aligned, Opposed, Mixed, TransportOnly}

MkTable(v, layout) ==
    [x \in {"county"} \cup {RawCols[c] : c \in 1..9} |->
        IF x = "county" THEN [i \in 1..Len(v) |-> i]
        ELSE LET c == CHOOSE k \in 1..9 : RawCols[k] = x
             IN  CASE layout[c] = "v" -> v
                   [] layout[c] = "neg" -> Neg(v)
                   [] layout[c] = "rot" -> Rot(v)
                   [] OTHER -> Flat(v)]

DropCol(df, c) == [x \in (DOMAIN df) \ {c} |-> df[x]]

\* Every operation treats the regions alike, so the base vector is taken
\* non-decreasing; the rotated columns of a layout order the regions differently.
BaseVectors == {v \in [Regions -> Vals] : \A i \in 1..(NReg - 1) : v[i] <= v[i + 1]}

FullTables == {MkTable(v, l) : v \in BaseVectors, l \in Layouts}

\* tables lacking one required column
DroppedTables ==
    {DropCol(MkTable(v, Aligned), RawCols[k]) :
        v \in {u \in BaseVectors : u[1] = 0 - 1 /\ u[NReg] = MaxVal}, k \in 1..9}

InputTables == FullTables \cup DroppedTables

W4(a, b, c, d) == << <<"transportation", a>>, <<"labor_market", b>>,
                     <<"licensing", c>>, <<"policy", d>> >>

labor_focused == W4(200000000, 500000000, 150000000, 150000000)    \* sums to 1.0
short_weights == W4(200000000, 500000000, 150000000, 100000000)    \* sums to 0.95

\* weight arguments of the constructor in the engine runs
MainWeightArgs ==
    { <<>>,                                                    \* {} (or None)
      labor_focused,
      short_weights,
      W4(200000000, 500000000, 150000000, 150001000),          \* sums to 1.000001
      W4(200000000, 500000000, 150000000, 150020000),          \* sums to 1.00002
      W4(1200000000, 0 - 200000000, 0, 0),                     \* a negative weight
      << <<"transportation", 1000000000>> >>,                  \* three keys absent
      << <<"policy", 150000000>>, <<"licensing", 200000000>>,
         <<"labor_market", 350000000>>, <<"transportation", 300000000>> >> }

\* weight arguments of the constructor on its own: every combination of these values
CtorValues ==
    [transportation |-> {200000000, 300000000, 1200000000},
     labor_market |-> {500000000, 350000000, 0 - 200000000},
     licensing |-> {150000000, 200000000, 0},
     policy |-> {150000000, 100000000, 0, 150000001, 150000002, 150001000,
                 150010010, 150010011, 149989990, 149989989}]

CtorArgs ==
    MainWeightArgs \cup
    {W4(a, b, c, d) : a \in CtorValues.transportation, b \in CtorValues.labor_market,
                      c \in CtorValues.licensing, d \in CtorValues.policy}

ScenNames == {"labor_focused", "base"}

\* scenario dicts of at most two scenarios, own being the engine's weights
ScenarioArgs(own) ==
    LET ws == {own, labor_focused, short_weights}
    IN  {<<>>}
        \cup {<< <<n, w>> >> : n \in ScenNames, w \in ws}
        \cup {<< <<"labor_focused", p[1]>>, <<"base", p[2]>> >> :
                 p \in {q \in ws \X ws : q[1] # q[2]}}

SeriesArgs == UNION {[1..n -> Vals] : n \in 1..MaxLen}

----------------------------------------------------------------------------
(* Specifications *)

NoEngine == [status |-> "none", default_weights |-> <<>>, weights |-> "none"]
NoNorm == [done |-> {}, out |-> [r \in BOOLEAN |-> <<>>]]

InitWith(T, S) ==
    /\ callerWeights = [e \in Engines |-> <<>>]
    /\ engine = [e \in Engines |-> NoEngine]
    /\ tables \in [TableIds -> T]
    /\ result = NoCall
    /\ series \in S
    /\ normOut = NoNorm
    /\ calls = [e \in Engines |-> NoFrame]

\* the engine: construction, calculate_reai, sensitivity_analysis,
\* get_summary_statistics
Init == InitWith(InputTables, {<<>>})

Next ==
    \/ \E w \in MainWeightArgs : Construct("A", w)
    \/ Calculate("A", "t1")
    \/ \E sc \in ScenarioArgs(self_weights("A")) : Sensitivity("A", "t1", sc)
    \/ Summary("A", "t1")

Spec == Init /\ [][Next]_vars

\* one engine and three tables: t1 and t2 are equal copies of one input, t3 is
\* another table
OtherTables == {MkTable([i \in Regions |-> IF i = 1 THEN 0 - 1 ELSE MaxVal], Opposed),
                DropCol(MkTable([i \in Regions |-> IF i = 1 THEN 0 - 1 ELSE MaxVal], Aligned),
                        "fair_chance_score")}

InitRepeat ==
    /\ callerWeights = [e \in Engines |-> <<>>]
    /\ engine = [e \in Engines |-> NoEngine]
    /\ \E df \in FullTables, other \in OtherTables :
          tables = [t \in {"t1", "t2", "t3"} |-> IF t = "t3" THEN other ELSE df]
    /\ result = NoCall
    /\ series = <<>>
    /\ normOut = NoNorm
    /\ calls = [e \in Engines |-> NoFrame]

NextRepeat ==
    \/ \E w \in MainWeightArgs : Construct("A", w)
    \/ \E t \in {"t1", "t2", "t3"} : Calculate("A", t)

SpecRepeat == InitRepeat /\ [][NextRepeat]_vars

\* two engines with different weights, each running calculate_reai once on its
\* own copy of one input table, statement by statement in any interleaving
TwoTables ==
    {MkTable(v, l) : v \in BaseVectors, l \in {Opposed, Mixed}}
    \cup {DropCol(MkTable([i \in Regions |-> IF i = 1 THEN 0 - 1 ELSE MaxVal], Aligned),
                  "ban_the_box_score")}

WeightArgsA == {<<>>, << <<"transportation", 1000000000>> >>}
WeightArgsB == {labor_focused, W4(1200000000, 0 - 200000000, 0, 0)}

InitTwo ==
    /\ callerWeights = [e \in {"A", "B"} |-> <<>>]
    /\ engine = [e \in {"A", "B"} |-> NoEngine]
    /\ \E df \in TwoTables : tables = [t \in {"t1", "t2"} |-> df]
    /\ result = NoCall
    /\ series = <<>>
    /\ normOut = NoNorm
    /\ calls = [e \in {"A", "B"} |-> NoFrame]

NextTwo ==
    \/ \E w \in WeightArgsA : Construct("A", w)
    \/ \E w \in WeightArgsB : Construct("B", w)
    \/ CalcStep("A", "t1")
    \/ CalcStep("B", "t2")

SpecTwo == InitTwo /\ [][NextTwo]_vars

\* two engines with different weights called one after the other on the same
\* table object
InitShared ==
    /\ callerWeights = [e \in {"A", "B"} |-> <<>>]
    /\ engine = [e \in {"A", "B"} |-> NoEngine]
    /\ \E df \in TwoTables : tables = [t \in {"t1"} |-> df]
    /\ result = NoCall
    /\ series = <<>>
    /\ normOut = NoNorm
    /\ calls = [e \in {"A", "B"} |-> NoFrame]

NextShared ==
    \/ \E w \in WeightArgsA : Construct("A", w)
    \/ \E w \in WeightArgsB : Construct("B", w)
    \/ Calculate("A", "t1")
    \/ Calculate("B", "t1")

SpecShared == InitShared /\ [][NextShared]_vars

\* one engine whose caller goes on writing to the dict it passed in
NewValues == {500000000}

NextAlias ==
    \/ \E w \in {<<>>, labor_focused} : Construct("A", w)
    \/ \E k \in SeqRange(Components), v \in NewValues : CallerMutates("A", k, v)
    \/ Calculate("A", "t1")
    \/ Summary("A", "t1")

InitAlias == InitWith(OtherTables, {<<>>})
SpecAlias == InitAlias /\ [][NextAlias]_vars

\* construction on its own
InitConstruct == InitWith({<<>>}, {<<>>})
NextConstruct == \E w \in CtorArgs : Construct("A", w)
SpecConstruct == InitConstruct /\ [][NextConstruct]_vars

\* normalize_score on its own
InitNormalize == InitWith({<<>>}, SeriesArgs)
NextNormalize == \E r \in BOOLEAN : Normalize(r)
SpecNormalize == InitNormalize /\ [][NextNormalize]_vars

\* normalize_score on a column and on the column rescaled and shifted
Factors == {1, 2, 3}
Shifts == {0, 0 - 2, 5}
NextAffine ==
    \/ \E r \in BOOLEAN : Normalize(r)
    \/ \E k \in Factors, c \in Shifts, r \in BOOLEAN : NormalizeAffine(k, c, r)
SpecAffine == InitNormalize /\ [][NextAffine]_vars

----------------------------------------------------------------------------
(* Claims about construction (SpecConstruct) *)

SumOf(w) == SeqSum(DictValues(w))

\* C1 as stated: construction succeeds if and only if the supplied weight set
\* sums to 1.0 within 1e-9 (one nano unit); an empty set is rejected.
C1_WithinNano ==
    result.op = "init" =>
        ((result.status = "ok" /\ engine[result.eng].status = "ok")
            <=> Abs(SumOf(result.arg) - Nano) <= 1)

\* C1 amended: construction succeeds if and only if the supplied weight set is
\* empty (the default weights are then used) or its sum s has
\* |s - 1.0| <= 1e-8 + 1e-5; otherwise it raises ValueError.
C1_WithinIsclose ==
    result.op = "init" =>
        /\ (result.status = "ok" /\ engine[result.eng].status = "ok")
              <=> (result.arg = <<>> \/ Abs(SumOf(result.arg) - Nano) <= 10010)
        /\ result.status # "ok" =>
              result.status = "ValueError" /\ engine[result.eng].status = "failed"

\* a weight set summing to 1.000001 was accepted
C1_Witness ==
    /\ result.op = "init" /\ result.status = "ok"
    /\ SumOf(result.arg) = Nano + 1000

----------------------------------------------------------------------------
(* Claims about normalize_score (SpecNormalize) *)

IsConstant(s) == \A i, j \in 1..Len(s) : s[i] = s[j]

\* C6: for a constant column (a single-element one included) normalize_score
\* returns exactly 50.0 for every element, whether reverse is true or false.
C6_ConstantIsFifty ==
    \A r \in normOut.done :
        IsConstant(series) =>
            /\ Len(normOut.out[r]) = Len(series)
            /\ \A i \in 1..Len(series) : normOut.out[r][i] = Fifty

C6_Witness ==
    /\ normOut.done = BOOLEAN
    /\ Len(series) = 2 /\ IsConstant(series)

\* C7: for a non-constant column, normalize_score(values, reverse=True)[i]
\* equals 100 - normalize_score(values, reverse=False)[i] at every position i.
C7_ReverseReflects ==
    (normOut.done = BOOLEAN /\ ~IsConstant(series)) =>
        /\ Len(normOut.out[TRUE]) = Len(series)
        /\ \A i \in 1..Len(series) :
              normOut.out[TRUE][i] = Hundred - normOut.out[FALSE][i]

C7_Witness ==
    /\ normOut.done = BOOLEAN
    /\ Len(series) = 3 /\ series[1] < series[2] /\ series[2] < series[3]

\* C21: for a non-constant column of N values normalize_score returns N values
\* with score * (max - min) = (value - min) * 100, reflected to 100 - score
\* under reverse: every score lies in [0, 100], the minimum maps to 0 and the
\* maximum to 100 (swapped under reverse), the order of the values is kept
\* (reversed under reverse), and the column handed in is not modified.
C21_MinMaxScaling ==
    /\ [](\A r \in normOut.done :
            ~IsConstant(series) =>
                LET out == normOut.out[r]
                    lo == SeqMin(series)
                    hi == SeqMax(series)
                    direct == [i \in 1..Len(series) |->
                                  IF r THEN Hundred - out[i] ELSE out[i]]
                IN  /\ Len(out) = Len(series)
                    /\ \A i \in 1..Len(series) :
                          /\ direct[i] * (hi - lo) = (series[i] - lo) * Hundred
                          /\ 0 <= out[i] /\ out[i] <= Hundred
                          /\ series[i] = lo => out[i] = (IF r THEN Hundred ELSE 0)
                          /\ series[i] = hi => out[i] = (IF r THEN 0 ELSE Hundred)
                    /\ \A i, j \in 1..Len(series) :
                          series[i] < series[j]
                              => (IF r THEN out[i] > out[j] ELSE out[i] < out[j]))
    /\ [][series' = series]_vars

\* a non-constant column of MaxLen values, a negative one among them and one
\* strictly between the minimum and the maximum, normalized in both directions
C21_Witness ==
    /\ normOut.done = BOOLEAN
    /\ Len(series) = MaxLen /\ ~IsConstant(series)
    /\ \E i \in 1..Len(series) : series[i] < 0
    /\ \E i \in 1..Len(series) :
          normOut.out[FALSE][i] # 0 /\ normOut.out[FALSE][i] # Hundred

----------------------------------------------------------------------------
(* Claims about calculate_reai (Spec) *)

CalcDone == result.op = "calculate_reai" /\ result.status = "ok"
CalcTable == tables[result.tbl]

\* C2: after calculate_reai every region's REAI_rank is 1 + the number of
\* regions with a strictly greater REAI: a greater REAI never has a worse rank,
\* equal REAI have equal ranks, some region has rank 1, ranks lie in 1..N.
C2_MinRank ==
    \A t \in TableIds :
        "REAI_rank" \in DOMAIN tables[t] =>
            LET reai == tables[t]["REAI"]
                rank == tables[t]["REAI_rank"]
                R == 1..Len(reai)
            IN  /\ Len(rank) = Len(reai)
                /\ \A a \in R :
                      /\ rank[a] = 1 + Cardinality({b \in R : CLess(reai[a], reai[b])})
                      /\ rank[a] \in R
                      /\ \A b \in R :
                            /\ CLess(reai[b], reai[a]) => rank[a] <= rank[b]
                            /\ reai[a] = reai[b] => rank[a] = rank[b]
                /\ \E a \in R : rank[a] = 1

\* two regions tied for rank 1, the third at rank 3
C2_Witness ==
    /\ CalcDone
    /\ \E a, b, c \in Regions :
          /\ a # b
          /\ CalcTable["REAI_rank"][a] = 1 /\ CalcTable["REAI_rank"][b] = 1
          /\ CalcTable["REAI_rank"][c] = 3
          /\ CLess(CalcTable["REAI"][c], CalcTable["REAI"][a])

\* C3: for every engine that construction accepts, the four component
\* scores and the composite REAI of every region lie in [0, 100].
C3_ScoresInRange ==
    CalcDone =>
        \A i \in 1..Len(CalcTable["REAI"]) :
            /\ \A k \in 1..4 :
                  CalcTable[ScoreCols[k]][i] >= 0 /\ CalcTable[ScoreCols[k]][i] <= Hundred
            /\ CLeq(CZero, CalcTable["REAI"][i])
            /\ CLeq(CalcTable["REAI"][i], CHundred)

\* C4: after calculate_reai returns, the table the caller passed in has
\* exactly the columns and values it had before the call.
C4_InputUntouched ==
    CalcDone => tables[result.tbl] = result.pre

\* C5: when a required input column is absent, calculate_reai raises KeyError
\* and the caller's table carries none of the derived columns afterwards.
C5_NoPartialColumns ==
    (result.op = "calculate_reai"
       /\ \E c \in 1..9 : RawCols[c] \notin DOMAIN result.pre) =>
        /\ result.status = "KeyError"
        /\ DOMAIN tables[result.tbl] \cap DerivedCols = {}

----------------------------------------------------------------------------
(* Claims about sensitivity_analysis (Spec) *)

SensCall == result.op = "sensitivity_analysis"
SensDone == SensCall /\ result.status = "ok"
SumsToOne(w) == isclose(SumOf(w), Nano)

\* C8: a scenario whose weights equal the engine's own yields a scenario
\* composite equal to base_REAI and a scenario rank equal to base_rank in the
\* returned table.
C8_OwnWeightsReproduceBase ==
    SensDone =>
        \A k \in 1..Len(result.arg) :
            result.arg[k][2] = self_weights(result.eng) =>
                /\ result.val[result.arg[k][1] \o "_REAI"] = result.val["base_REAI"]
                /\ result.val[result.arg[k][1] \o "_rank"] = result.val["base_rank"]

\* C9: the returned table has one row per region in the input's order, its
\* base_REAI and base_rank are the input table's REAI and REAI_rank, and each
\* scenario S contributes S_REAI and S_rank, whatever the scenarios are named.
C9_BaseColumnsKept ==
    SensDone =>
        /\ result.val["county"] = result.pre["county"]
        /\ result.val["base_REAI"] = result.pre["REAI"]
        /\ result.val["base_rank"] = result.pre["REAI_rank"]
        /\ \A k \in 1..Len(result.arg) :
              {result.arg[k][1] \o "_REAI", result.arg[k][1] \o "_rank"}
                  \subseteq DOMAIN result.val

\* the scenarios of a call whose weights fail the sum check
Offending(scenarios) == {k \in 1..Len(scenarios) : ~SumsToOne(scenarios[k][2])}
FirstOffending(scenarios) ==
    CHOOSE k \in Offending(scenarios) : \A j \in Offending(scenarios) : k <= j

\* C10: when a scenario's weights do not sum to 1.0, sensitivity_analysis on a
\* scored table raises a ValueError naming that scenario (the first such one),
\* returns no table, and leaves the tables and the engine's weights as they were.
C10_InvalidScenarioFails ==
    [][ (result'.op = "sensitivity_analysis"
           /\ Offending(result'.arg) # {}
           /\ {"county", "REAI", "REAI_rank"} \cup {ScoreCols[k] : k \in 1..4}
                 \subseteq DOMAIN tables[result'.tbl])
        => /\ result'.status = "ValueError"
           /\ result'.msg = "Weights for " \o result'.arg[FirstOffending(result'.arg)][1]
                               \o " must sum to 1.0"
           /\ result'.val = <<>>
           /\ tables' = tables
           /\ engine' = engine
           /\ callerWeights' = callerWeights ]_vars

\* a call failed on its second scenario, after the first had been computed
C10_Witness ==
    /\ SensCall /\ result.status = "ValueError"
    /\ Len(result.arg) = 2
    /\ Offending(result.arg) = {2}
    /\ "REAI" \in DOMAIN tables[result.tbl]

----------------------------------------------------------------------------
(* Claims about the engine's weights and the summary table (Spec) *)

\* C11: the weights of a successfully constructed engine are the weight set
\* validated at construction (the argument, or the defaults when none was
\* given), sum to 1.0 within the tolerance, and are changed by no
\* calculate_reai, sensitivity_analysis or get_summary_statistics call.
C11_WeightsImmutable ==
    [][\A e \in Engines :
          /\ (engine[e].status = "none" /\ engine'[e].status = "ok")
                => /\ self_weights(e)' = (IF result'.arg = <<>> THEN default_weights
                                                              ELSE result'.arg)
                   /\ SumsToOne(self_weights(e)')
          /\ engine[e].status = "ok"
                => /\ engine'[e].status = "ok"
                   /\ self_weights(e)' = self_weights(e)
                   /\ SumsToOne(self_weights(e)')]_vars

\* an engine built from supplied weights, after calculate_reai and a
\* sensitivity_analysis with scenarios
C11_Witness ==
    /\ engine["A"].status = "ok"
    /\ self_weights("A") = labor_focused
    /\ SensDone /\ result.arg # <<>>
    /\ "REAI_rank" \in DOMAIN tables["t1"]

SummaryCall == result.op = "get_summary_statistics"
SummaryDone == SummaryCall /\ result.status = "ok"

\* C13: in the returned summary the REAI row carries weight 1.0 and the row of
\* each component score carries the engine's weight of that component.
C13_WeightByComponent ==
    SummaryDone =>
        /\ result.val.cell["weight"]["REAI"] = Nano
        /\ \A k \in 1..4 :
              result.val.cell["weight"][ScoreCols[k]]
                  = DictGet(self_weights(result.eng), Components[k])

\* C16 as stated: the summary has the five score rows and reports count, mean,
\* std, min, the three quartiles and max, led by the weight column.
C16_CountReported ==
    SummaryDone =>
        /\ result.val.index = <<"REAI", "transportation_score", "labor_market_score",
                                "licensing_score", "policy_score">>
        /\ result.val.columns[1] = "weight"
        /\ {"count", "mean", "std", "min", "25%", "50%", "75%", "max"}
               \subseteq SeqRange(result.val.columns)

\* C16 amended: the summary has exactly the five score rows and exactly the
\* columns weight, mean, std, min, 25%, 50%, 75%, max in that order (count is not
\* returned); every statistic of a row is that statistic of the row's column.
C16_SummaryShape ==
    SummaryDone =>
        /\ result.val.index = <<"REAI", "transportation_score", "labor_market_score",
                                "licensing_score", "policy_score">>
        /\ result.val.columns = <<"weight", "mean", "std", "min", "25%", "50%", "75%", "max">>
        /\ DOMAIN result.val.cell = SeqRange(result.val.columns)
        /\ \A c \in SeqRange(result.val.columns) :
              /\ DOMAIN result.val.cell[c] = SeqRange(result.val.index)
              /\ c # "weight" =>
                    \A r \in SeqRange(result.val.index) :
                        result.val.cell[c][r] = [stat |-> c, of |-> result.pre[r]]

C16_Witness ==
    /\ SummaryDone
    /\ \E i, j \in Regions : result.pre["REAI"][i] # result.pre["REAI"][j]

----------------------------------------------------------------------------
(* Claims about the scores and the composite (Spec) *)

\* w[1] * x[1] + ... + w[4] * x[4] of four weights (nano) and four scores (1/Den)
Composite(w, x) ==
    Canon(x[1] * WHi(w[1]) + x[2] * WHi(w[2]) + x[3] * WHi(w[3]) + x[4] * WHi(w[4]),
          x[1] * WLo(w[1]) + x[2] * WLo(w[2]) + x[3] * WLo(w[3]) + x[4] * WLo(w[4]))

ByComponent(w) == [k \in 1..4 |-> DictGet(w, Components[k])]
ScoresOf(df, i) == [k \in 1..4 |-> df[ScoreCols[k]][i]]

\* C14: a region with lower pct_no_vehicle, lower avg_commute_time and higher
\* pct_broadband than another has the strictly higher transportation_score; and
\* under the default weights, when the other three component scores are equal
\* across regions, a region ranks ahead of another exactly when its
\* transportation_score is higher.
C14_TransportationOrdering ==
    CalcDone =>
        LET df == CalcTable
            T == df["transportation_score"]
            othersEqual == \A k \in 2..4 : \A a, b \in Regions :
                               df[ScoreCols[k]][a] = df[ScoreCols[k]][b]
        IN  /\ \A a, b \in Regions :
                  (/\ df["pct_no_vehicle"][a] < df["pct_no_vehicle"][b]
                   /\ df["avg_commute_time"][a] < df["avg_commute_time"][b]
                   /\ df["pct_broadband"][a] > df["pct_broadband"][b])
                      => T[a] > T[b]
            /\ (self_weights(result.eng) = default_weights /\ othersEqual)
                  => \A a, b \in Regions :
                        (T[a] > T[b]) <=> (df["REAI_rank"][a] < df["REAI_rank"][b])

\* the example: every sub-indicator favours region 1 over region 2 over region 3
\* (such as pct_no_vehicle 5, 10, 15, avg_commute_time 20, 25, 30, pct_broadband
\* 90, 80, 70), the other components are level and the weights are the defaults
C14_Witness ==
    /\ CalcDone
    /\ self_weights(result.eng) = default_weights
    /\ \A a \in 1..(NReg - 1) :
          /\ CalcTable["pct_no_vehicle"][a] < CalcTable["pct_no_vehicle"][a + 1]
          /\ CalcTable["avg_commute_time"][a] < CalcTable["avg_commute_time"][a + 1]
          /\ CalcTable["pct_broadband"][a] > CalcTable["pct_broadband"][a + 1]
    /\ \A k \in 2..4 : IsConstant(CalcTable[ScoreCols[k]])
    /\ CalcTable["transportation_score"][1] = Hundred
    /\ CalcTable["transportation_score"][NReg] = 0
    /\ CalcTable["REAI_rank"] = [i \in Regions |-> i]

\* C17: for every scenario of a completed sensitivity_analysis, each region's
\* scenario composite is the sum of scenario weight times the component score on
\* the table, and its scenario rank is 1 + the number of regions with a strictly
\* greater scenario composite.
C17_ScenarioUsesOwnWeights ==
    SensDone =>
        \A k \in 1..Len(result.arg) :
            LET name == result.arg[k][1]
                w == ByComponent(result.arg[k][2])
                reai == result.val[name \o "_REAI"]
                rank == result.val[name \o "_rank"]
            IN  \A i \in Regions :
                    /\ reai[i] = Composite(w, ScoresOf(result.pre, i))
                    /\ rank[i] = 1 + Cardinality({j \in Regions : CLess(reai[i], reai[j])})

\* a scenario whose weights differ from the engine's and reorder the regions
C17_Witness ==
    /\ SensDone
    /\ \E k \in 1..Len(result.arg) :
          /\ result.arg[k][1] # "base"
          /\ result.arg[k][2] # self_weights(result.eng)
          /\ result.val[result.arg[k][1] \o "_rank"] # result.pre["REAI_rank"]

\* C18: sensitivity_analysis on a table without any derived column raises and
\* returns nothing; on a table carrying the six derived columns, with scenarios
\* that each sum to 1.0, it returns.
C18_SensitivityNeedsCalculate ==
    SensCall =>
        /\ DerivedCols \cap DOMAIN result.pre = {}
              => (result.status # "ok" /\ result.val = <<>>)
        /\ (DerivedCols \subseteq DOMAIN result.pre /\ Offending(result.arg) = {})
              => result.status = "ok"

C18_Witness ==
    /\ SensCall
    /\ DerivedCols \cap DOMAIN result.pre = {}
    /\ result.status = "KeyError" /\ result.msg = "REAI"

\* C19: after calculate_reai the component scores are the fixed combinations of
\* the normalized inputs, whatever the engine's weights: transportation the mean
\* of three, labor market 0.40 / 0.30 / 0.30, licensing one reversed input,
\* policy the mean of two.
C19_FixedSubWeights ==
    CalcDone =>
        LET df == result.pre
            out == CalcTable
            N(c, reverse) == normalize_score(df[c], reverse)
            vehicle == normalize_score([i \in Regions |-> 100 - df["pct_no_vehicle"][i]], FALSE)
        IN  \A i \in Regions :
                /\ 3 * out["transportation_score"][i]
                      = vehicle[i] + N("avg_commute_time", TRUE)[i] + N("pct_broadband", FALSE)[i]
                /\ 100 * out["labor_market_score"][i]
                      = 40 * N("unemployment_rate", TRUE)[i]
                          + 30 * N("employment_growth", FALSE)[i]
                          + 30 * N("poverty_rate", TRUE)[i]
                /\ out["licensing_score"][i] = N("licensing_burden_index", TRUE)[i]
                /\ 2 * out["policy_score"][i]
                      = N("ban_the_box_score", FALSE)[i] + N("fair_chance_score", FALSE)[i]

\* the three labor-market sub-scores differ in some region, under non-default weights
C19_Witness ==
    /\ CalcDone
    /\ self_weights(result.eng) # default_weights
    /\ \E i \in Regions :
          normalize_score(result.pre["unemployment_rate"], TRUE)[i]
              # normalize_score(result.pre["employment_growth"], FALSE)[i]

\* C20: after calculate_reai every region's REAI is the sum over the four
\* components of the engine's weight times the component score on the table.
C20_CompositeIsWeightedSum ==
    CalcDone =>
        \A i \in Regions :
            CalcTable["REAI"][i]
                = Composite(ByComponent(self_weights(result.eng)), ScoresOf(CalcTable, i))

\* non-default weights, and component scores that differ within a region
C20_Witness ==
    /\ CalcDone
    /\ self_weights(result.eng) = labor_focused
    /\ \E i \in Regions :
          CalcTable["transportation_score"][i] # CalcTable["labor_market_score"][i]

\* C25: on a table that has all nine input columns, calculate_reai of a
\* successfully constructed engine runs to completion.
C25_CalculateCompletes ==
    (result.op = "calculate_reai" /\ SeqRange(RawCols) \subseteq DOMAIN result.pre)
        => result.status = "ok"

\* C26: calculate_reai applied to a table that already carries the six derived
\* columns of an earlier call of the same engine leaves the table as it was:
\* the same columns, component scores, REAI and REAI_rank, the same raw columns.
C26_Idempotent ==
    (CalcDone /\ DerivedCols \subseteq DOMAIN result.pre) => CalcTable = result.pre

\* a second call under supplied weights on a table whose regions differ in REAI
C26_Witness ==
    /\ CalcDone /\ DerivedCols \subseteq DOMAIN result.pre
    /\ self_weights(result.eng) = labor_focused
    /\ \E i, j \in Regions : CLess(CalcTable["REAI"][i], CalcTable["REAI"][j])

----------------------------------------------------------------------------
(* Claims about repeated calls (SpecRepeat) *)

InputCols(df) == [c \in (DOMAIN df) \ DerivedCols |-> df[c]]
Calculated(df) == DerivedCols \subseteq DOMAIN df

\* C12: two tables with equal input columns hold the same six derived columns
\* with the same values once calculate_reai has completed on each of them,
\* whatever calls the engine made before and between (on these or another table).
C12_SameInputSameOutput ==
    \A t, u \in DOMAIN tables :
        (/\ Calculated(tables[t]) /\ Calculated(tables[u])
         /\ InputCols(tables[t]) = InputCols(tables[u]))
            => tables[t] = tables[u]

\* both copies calculated, a call on the other table made last, under supplied weights
C12_Witness ==
    /\ Calculated(tables["t1"]) /\ Calculated(tables["t2"])
    /\ result.op = "calculate_reai" /\ result.tbl = "t3"
    /\ self_weights("A") = labor_focused
    /\ \E i, j \in Regions : tables["t1"]["REAI"][i] # tables["t1"]["REAI"][j]

----------------------------------------------------------------------------
(* Claims about two engines (SpecTwo) *)

\* the weight set engine e was constructed with
Configured(e) == IF callerWeights[e] = <<>> THEN default_weights ELSE callerWeights[e]

\* what e.calculate_reai does to the content its table had on entry when
\* nothing else runs
Alone(e) == calculate_reai(Configured(e), calls[e].pre)

\* C15: with two engines of different weights each running calculate_reai on its
\* own copy of one input, in any interleaving of their statements: a finished
\* call leaves in the engine's table, and ends with, exactly what the call
\* produces running alone; and no step changes the weights of a constructed
\* engine.
C15_NoInterference ==
    /\ [](\A e \in DOMAIN calls :
            /\ engine[e].status = "ok" => self_weights(e) = Configured(e)
            /\ calls[e].status \in {"ok", "KeyError"}
                  => /\ tables[calls[e].tbl] = Alone(e).df
                     /\ calls[e].status = Alone(e).status
                     /\ calls[e].key = Alone(e).key)
    /\ [][\A e \in DOMAIN calls :
             engine[e].status = "ok"
                 => (engine'[e] = engine[e] /\ callerWeights'[e] = callerWeights[e])]_vars

\* both calls have returned and the two copies carry different composites
C15_Witness ==
    /\ DOMAIN calls = {"A", "B"}
    /\ calls["A"].status = "ok" /\ calls["B"].status = "ok"
    /\ Configured("A") # Configured("B")
    /\ calls["A"].pre = calls["B"].pre
    /\ tables["t1"]["REAI_rank"] # tables["t2"]["REAI_rank"]

----------------------------------------------------------------------------
(* Claims about a table shared by two engines (SpecShared) *)

\* C23: the REAI and REAI_rank values of a table that calculate_reai has
\* returned do not change afterwards, whichever engine is called on that table.
C23_ReturnedResultStable ==
    [][\A t \in DOMAIN tables :
          "REAI_rank" \in DOMAIN tables[t]
              => /\ tables'[t]["REAI"] = tables[t]["REAI"]
                 /\ tables'[t]["REAI_rank"] = tables[t]["REAI_rank"]]_vars

----------------------------------------------------------------------------
(* Claims about the caller's dict (SpecAlias) *)

\* C24: whatever the caller does to the dict it passed to the constructor,
\* every later calculate_reai or get_summary_statistics call runs with weights
\* that pass the validation (the weights validated at construction).
C24_NeverUnvalidated ==
    [][(/\ result' # result
        /\ result'.op \in {"calculate_reai", "get_summary_statistics"})
          => SumsToOne(self_weights(result'.eng))]_vars

====
